---- MODULE Spec2Model ----
(***************************************************************************)
(* Model of the Marktplaats listing tracker.                               *)
(*                                                                         *)
(* data.db is the table written by _update_database (one row per listing   *)
(* id, columns id / price / status / last_seen / final_price; title and    *)
(* url are carried by the upsert but take part in no status decision and   *)
(* are left out).  The table is a set of rows, so that the uniqueness of   *)
(* id is a property of the upsert and not of the representation.           *)
(* A reconciliation run is one call of _update_database: the rows the      *)
(* connection has written are tx, the rows on disk are db, and only        *)
(* conn.commit() copies the one into the other.                            *)
(*                                                                         *)
(* Specifications:                                                         *)
(*   Spec                runs of _update_database for the query of main()  *)
(*   SpecQueries         the same table shared by several queries          *)
(*   SpecRead            a run with a reader on another connection         *)
(*   SpecNotify          the listings.db half of main()                    *)
(*   SpecNotifyComplete  the same, every run reaching its end              *)
(*   SpecFetch           the page loop of fetch_all_listings               *)
(*   SpecMatch           match_product_key                                 *)
(*   SpecWinsorize       winsorize                                         *)
(*   SpecAnalyze         analyze                                           *)
(***************************************************************************)
EXTENDS Integers, FiniteSets, Sequences, TLC

\* ---------------------------------------------------------------- bounds
MaxPrice == 2
MaxClock == 3
MaxBatch == 2
MaxVersion == 2
MaxPageLen == 2
MaxFetches == 5
MaxKeys == 2
MaxPatterns == 2
MaxVal == 4
MaxShort == 5
MaxLong == 10
MaxRows == 2
MaxAlerts == 2

\* ---------------------------------------------------------- input domains
Ids == {"A", "B"}
Prices == 1..MaxPrice
Times == 1..MaxClock

\* SQL NULL / Python None in a numeric column
NULL == -1

\* The query main() reconciles, and the queries of a store shared by several
SEARCH_URL == "solis"
Queries == {SEARCH_URL, "other"}
\* ids a query's result pages can contain
Scope(q) == IF q = SEARCH_URL THEN Ids ELSE {"B"}

\* product["price"] as handed to _update_database: the key is missing or
\* None, the empty string, a string "€<n>.00" as fetch_listings formats it,
\* a string float() rejects, or a value that is not a string at all.
RawPrices ==
    {[kind |-> c, amount |-> 0] : c \in {"none", "empty", "garbage", "number"}}
        \cup {[kind |-> "euro", amount |-> n] : n \in Prices}

\* line 73: a truthy price without .replace raises AttributeError, which the
\* except ValueError does not catch
PriceRaisesOn(raw) == raw.kind = "number"

\* lines 70-75: None and "" are falsy, ValueError gives None
ParsePrice(raw) ==
    IF raw.kind \in {"none", "empty"} THEN NULL
    ELSE IF raw.kind = "euro" THEN raw.amount
    ELSE NULL

\* data.db and the run of _update_database
VARIABLES db, tx, pc, now, query, seen_ids, k
\* listings.db and the notification half of main()
VARIABLES ldb, ltx, npc, created, new_ids, notified, n, alerts

\* a valuation read on its own connection while a run is under way
VARIABLES view, before

\* fetch_all_listings: the page loop
VARIABLES fpc, page, products, all_products, page_seen, fetched

\* match_product_key: the scores of the title against PRODUCT_RULES, the
\* position of the two loops and the best candidate so far
VARIABLES mpc, scores, mi, mj, best_key, best_score, matched

\* winsorize: its argument and its result
VARIABLES wpc, values, wins

\* analyze: the table it finds, its cursor and the keys it has collected
VARIABLES apc, acolumns, arows, ai, akeys

rvars == <<db, tx, pc, now, query, seen_ids, k>>
avars == <<apc, acolumns, arows, ai, akeys>>
wvars == <<wpc, values, wins>>
mvars == <<mpc, scores, mi, mj, best_key, best_score, matched>>
fvars == <<fpc, page, products, all_products, page_seen, fetched>>
nvars == <<ldb, ltx, npc, created, new_ids, notified, n, alerts>>
readvars == <<view, before>>
\* everything but the run of _update_database and the reader
ovars == <<nvars, fvars, mvars, wvars, avars>>
\* everything but the notification half of main()
xvars == <<rvars, readvars, fvars, mvars, wvars, avars>>
vars == <<rvars, nvars, readvars, fvars, mvars, wvars, avars>>

\* min(a, b), max(a, b)
Min2(a, b) == IF a <= b THEN a ELSE b
Max2(a, b) == IF a >= b THEN a ELSE b

\* ------------------------------------------------------------ the table
IdsOf(rows) == {r.id : r \in rows}

UpsertAlwaysInserts(rows, id, price, ts) ==
    rows \cup {[id |-> id, price |-> price, status |-> "available",
                last_seen |-> ts, final_price |-> NULL]}

UpsertReplacesRow(rows, id, price, ts) ==
    {r \in rows : r.id # id}
       \cup {[id |-> id, price |-> price, status |-> "available",
               last_seen |-> ts, final_price |-> NULL]}

UpsertKeepsStatus(rows, id, price, ts) ==
    IF id \in IdsOf(rows)
    THEN {IF r.id = id
          THEN [r EXCEPT !.price = price, !.last_seen = ts]
          ELSE r : r \in rows}
    ELSE rows \cup {[id |-> id, price |-> price, status |-> "available",
                     last_seen |-> ts, final_price |-> NULL]}

\* INSERT ... ON CONFLICT(id) DO UPDATE SET price, status, last_seen
Upsert(rows, id, price, ts) ==
    IF id \in IdsOf(rows)
    THEN {IF r.id = id
          THEN [r EXCEPT !.price = price, !.status = "available",
                         !.last_seen = ts]
          ELSE r : r \in rows}
    ELSE rows \cup {[id |-> id, price |-> price, status |-> "available",
                     last_seen |-> ts, final_price |-> NULL]}

MissingAnyStatus(rows, seen) == IdsOf(rows) \ seen

MissingNone(rows, seen) == seen \ IdsOf({r \in rows : r.status = "available"})

\* SELECT id FROM listings WHERE status='available', minus seen_ids
Missing(rows, seen) ==
    IdsOf({r \in rows : r.status = "available"}) \ seen

MarkSoldDropsPrice(rows, ids) ==
    {IF r.id \in ids
     THEN [r EXCEPT !.status = "sold", !.price = NULL]
     ELSE r : r \in rows}

MarkSoldTouchesLastSeen(rows, ids) ==
    {IF r.id \in ids
     THEN [r EXCEPT !.status = "sold", !.final_price = r.price,
                    !.price = NULL, !.last_seen = 0]
     ELSE r : r \in rows}

\* UPDATE listings SET status='sold', final_price=price, price=NULL WHERE id=?
MarkSold(rows, ids) ==
    {IF r.id \in ids
     THEN [r EXCEPT !.status = "sold", !.final_price = r.price,
                    !.price = NULL]
     ELSE r : r \in rows}

\* the whole "mark listings not seen in this scrape as sold" step
MarkMissingAsSold(rows, seen) == MarkSold(rows, Missing(rows, seen))

RollbackKeepsWrites(disk, written) == written

\* the connection goes away without commit: sqlite discards what it wrote
Rollback(disk, written) == disk

\* SELECT ... FROM listings WHERE last_seen >= ?
QueryWindow(rows, since) == {r \in rows : r.last_seen >= since}

\* ----------------------------------------------------------------- Init
InitStore ==
    /\ db = {}
    /\ tx = {}
    /\ pc = "idle"
    /\ now = 1
    /\ query = SEARCH_URL
    /\ seen_ids = {}
    /\ k = 0

InitNotify ==
    /\ ldb = {}
    /\ ltx = {}
    /\ npc = "idle"
    /\ created = {}
    /\ new_ids = {}
    /\ notified = {}
    /\ n = 0
    /\ alerts = [id \in Ids |-> 0]

NoView == [read |-> FALSE, rows |-> {}]

InitRead ==
    /\ view = NoView
    /\ before = {}

InitFetch ==
    /\ fpc = "idle"
    /\ page = 1
    /\ products = <<>>
    /\ all_products = <<>>
    /\ page_seen = {}
    /\ fetched = 0

\* valuation.py line 16
THRESHOLD == 80

\* best_key = None
NoKey == 0

InitMatch ==
    /\ mpc = "idle"
    /\ scores = <<>>
    /\ mi = 1
    /\ mj = 1
    /\ best_key = NoKey
    /\ best_score = 0
    /\ matched = NoKey

InitWinsorize ==
    /\ wpc = "idle"
    /\ values = <<>>
    /\ wins = <<>>

InitAnalyze ==
    /\ apc = "idle"
    /\ acolumns = {}
    /\ arows = <<>>
    /\ ai = 1
    /\ akeys = {}

Init ==
    /\ InitStore /\ InitNotify /\ InitRead /\ InitFetch
    /\ InitMatch /\ InitWinsorize /\ InitAnalyze

Resting == pc \in {"idle", "done", "failed"}

\* lines 62-67: connect, _init_db, now = utcnow(), seen_ids = set()
Begin(q) ==
    /\ Resting
    /\ \E t \in Times : t >= now /\ now' = t
    /\ query' = q
    /\ tx' = db
    /\ seen_ids' = {}
    /\ k' = 0
    /\ pc' = "upsert"
    /\ UNCHANGED <<db, ovars>>

\* main(): the one query of the program
StartRun == Begin(SEARCH_URL) /\ UNCHANGED readvars

\* a store that serves several queries
StartRunOfQuery == (\E q \in Queries : Begin(q)) /\ UNCHANGED readvars

\* lines 68-94, one iteration of the loop
UpsertProduct ==
    /\ pc = "upsert"
    /\ k < MaxBatch
    /\ \E id \in Scope(query), raw \in RawPrices :
          /\ ~PriceRaisesOn(raw)
          /\ seen_ids' = seen_ids \cup {id}
          /\ tx' = Upsert(tx, id, ParsePrice(raw), now)
    /\ k' = k + 1
    /\ UNCHANGED <<db, pc, now, query, ovars, readvars>>

\* line 73 on a price that is not a string: AttributeError leaves the
\* function before commit
PriceRaises ==
    /\ pc = "upsert"
    /\ k < MaxBatch
    /\ \E id \in Scope(query), raw \in RawPrices :
          /\ PriceRaisesOn(raw)
          /\ seen_ids' = seen_ids \cup {id}
    /\ db' = Rollback(db, tx)
    /\ tx' = db'
    /\ pc' = "failed"
    /\ k' = k + 1
    /\ UNCHANGED <<now, query, ovars, readvars>>

\* cur.execute of the upsert raises sqlite3.Error
ExecuteRaises ==
    /\ pc = "upsert"
    /\ db' = Rollback(db, tx)
    /\ tx' = db'
    /\ pc' = "failed"
    /\ UNCHANGED <<now, query, seen_ids, k, ovars, readvars>>

\* lines 96-104 after the loop has consumed the batch
MarkMissing ==
    /\ pc = "upsert"
    /\ tx' = MarkMissingAsSold(tx, seen_ids)
    /\ pc' = "commit"
    /\ UNCHANGED <<db, now, query, seen_ids, k, ovars, readvars>>

\* an UPDATE of the mark step raises after some of the updates ran
MarkRaises ==
    /\ pc = "upsert"
    /\ \E part \in SUBSET Missing(tx, seen_ids) :
          db' = Rollback(db, MarkSold(tx, part))
    /\ tx' = db'
    /\ pc' = "failed"
    /\ UNCHANGED <<now, query, seen_ids, k, ovars, readvars>>

\* line 106
Commit ==
    /\ pc = "commit"
    /\ db' = tx
    /\ pc' = "done"
    /\ UNCHANGED <<tx, now, query, seen_ids, k, ovars, readvars>>

\* line 106 raises
CommitRaises ==
    /\ pc = "commit"
    /\ db' = Rollback(db, tx)
    /\ tx' = db'
    /\ pc' = "failed"
    /\ UNCHANGED <<now, query, seen_ids, k, ovars, readvars>>

RunSteps ==
    \/ UpsertProduct
    \/ PriceRaises
    \/ ExecuteRaises
    \/ MarkMissing
    \/ MarkRaises
    \/ Commit
    \/ CommitRaises

Next == StartRun \/ RunSteps

Spec == Init /\ [][Next]_vars

\* ------------------------------------------------- a concurrent reader
VisibleUncommitted(disk, written) == written

\* what a SELECT on another connection sees of a table a run is writing:
\* the committed rows, never those of the open transaction
Visible(disk, written) == disk

\* the run of main(), remembering the table it started from
StartRunWatched ==
    /\ Begin(SEARCH_URL)
    /\ before' = db
    /\ view' = NoView

\* valuation.py 60-66: analyze connects and runs its SELECT, at any moment
ReadWindow ==
    /\ view' = [read |-> TRUE, rows |-> QueryWindow(Visible(db, tx), 0)]
    /\ UNCHANGED <<rvars, before, ovars>>

NextRead == StartRunWatched \/ RunSteps \/ ReadWindow

SpecRead == Init /\ [][NextRead]_vars

NextQueries == StartRunOfQuery \/ RunSteps

SpecQueries == Init /\ [][NextQueries]_vars

\* ------------------------------------------- listings.db, main() 329-344
\* json.dumps(listing): what the page said about the listing on this fetch
Versions == 1..MaxVersion

SaveOverwrites(rows, id, data) ==
    {r \in rows : r.id # id} \cup {[id |-> id, data |-> data, status |-> "new"]}

\* INSERT OR IGNORE INTO listings (id, data, status) VALUES (?, ?, 'new')
SaveListing(rows, id, data) ==
    IF id \in IdsOf(rows)
    THEN rows
    ELSE rows \cup {[id |-> id, data |-> data, status |-> "new"]}

\* SELECT id, data FROM listings WHERE status='new'
NewIds(rows) == IdsOf({r \in rows : r.status = "new"})

MarkActiveNothing(rows, ids) == rows

\* UPDATE listings SET status='active' WHERE id=?, for every id of ids
MarkActive(rows, ids) ==
    {IF r.id \in ids THEN [r EXCEPT !.status = "active"] ELSE r : r \in rows}

NResting == npc \in {"idle", "done", "failed"}

\* lines 329-331: init_db() and the second fetch_all_listings
BeginNotify ==
    /\ NResting
    /\ ltx' = ldb
    /\ created' = {}
    /\ new_ids' = {}
    /\ notified' = {}
    /\ n' = 0
    /\ npc' = "save"
    /\ UNCHANGED <<ldb, alerts, xvars>>

\* save_listings, one iteration of the loop
SaveOne ==
    /\ npc = "save"
    /\ n < MaxBatch
    /\ \E id \in Ids, data \in Versions :
          /\ ltx' = SaveListing(ltx, id, data)
          /\ created' = IF id \in IdsOf(ltx) THEN created ELSE created \cup {id}
    /\ n' = n + 1
    /\ UNCHANGED <<ldb, npc, new_ids, notified, alerts, xvars>>

\* save_listings raises inside the loop (a listing without "id", a value
\* json.dumps rejects): finally closes the connection without commit
SaveRaises ==
    /\ npc = "save"
    /\ ltx' = Rollback(ldb, ltx)
    /\ created' = {}
    /\ npc' = "failed"
    /\ UNCHANGED <<ldb, new_ids, notified, n, alerts, xvars>>

\* line 125
SaveCommit ==
    /\ npc = "save"
    /\ ldb' = ltx
    /\ npc' = "saved"
    /\ UNCHANGED <<ltx, created, new_ids, notified, n, alerts, xvars>>

\* get_new_listings
GetNewListings ==
    /\ npc = "saved"
    /\ new_ids' = NewIds(ltx)
    /\ npc' = "notify"
    /\ UNCHANGED <<ldb, ltx, created, notified, n, alerts, xvars>>

\* notify_new_listing for the next listing of new_listings
NotifyOne ==
    /\ npc = "notify"
    /\ \E id \in new_ids \ notified :
          /\ notified' = notified \cup {id}
          /\ alerts' = [alerts EXCEPT ![id] = Min2(@ + 1, MaxAlerts)]
    /\ UNCHANGED <<ldb, ltx, npc, created, new_ids, n, xvars>>

\* lines 337-338, then the rest of the try block
MarkListingsActive ==
    /\ npc = "notify"
    /\ notified = new_ids
    /\ ltx' = IF new_ids # {} THEN MarkActive(ltx, new_ids) ELSE ltx
    /\ ldb' = ltx'
    /\ npc' = "done"
    /\ UNCHANGED <<created, new_ids, notified, n, alerts, xvars>>

\* an exception between the commit of save_listings and the commit of
\* mark_listings_active (print, executemany): the saved rows stay 'new'
NotifyRaises ==
    /\ npc \in {"saved", "notify"}
    /\ ltx' = Rollback(ldb, ltx)
    /\ npc' = "failed"
    /\ UNCHANGED <<ldb, created, new_ids, notified, n, alerts, xvars>>

NextNotify ==
    \/ BeginNotify
    \/ SaveOne
    \/ SaveRaises
    \/ SaveCommit
    \/ GetNewListings
    \/ NotifyOne
    \/ MarkListingsActive
    \/ NotifyRaises

SpecNotify == Init /\ [][NextNotify]_vars

\* runs of the notification half that each reach the end of the try block
NextNotifyComplete ==
    \/ BeginNotify
    \/ SaveOne
    \/ SaveCommit
    \/ GetNewListings
    \/ NotifyOne
    \/ MarkListingsActive

SpecNotifyComplete == Init /\ [][NextNotifyComplete]_vars

\* ------------------------------------------------- fetch_all_listings
\* a product dictionary as fetch_listings returns it: its id and its price
Products == [id : Ids, price : Prices]

\* what fetch_listings can return for one page
Pages == UNION {[1..len -> Products] : len \in 0..MaxPageLen}

RECURSIVE SelectSeq2(_, _)
\* [p for p in ps if p["id"] not in seen]
SelectSeq2(ps, seen) ==
    IF ps = <<>> THEN <<>>
    ELSE IF Head(ps).id \notin seen
         THEN <<Head(ps)>> \o SelectSeq2(Tail(ps), seen)
         ELSE SelectSeq2(Tail(ps), seen)

NewProductsUnfiltered(ps, seen) == ps

\* line 309
NewProducts(ps, seen) == SelectSeq2(ps, seen)

SeqIds(ps) == {ps[i].id : i \in DOMAIN ps}

RECURSIVE UpsertBatch(_, _, _)
\* the loop of lines 68-94 over a whole batch of fetched products
UpsertBatch(rows, ps, ts) ==
    IF ps = <<>> THEN rows
    ELSE UpsertBatch(Upsert(rows, Head(ps).id, Head(ps).price, ts), Tail(ps), ts)

\* lines 302-304
BeginFetch ==
    /\ fpc \in {"idle", "returned", "raised"}
    /\ fpc' = "fetching"
    /\ page' = 1
    /\ products' = <<>>
    /\ all_products' = <<>>
    /\ page_seen' = {}
    /\ fetched' = 0
    /\ UNCHANGED <<rvars, readvars, nvars, mvars, wvars, avars>>

\* lines 307-316, one iteration of while True
FetchPage ==
    /\ fpc = "fetching"
    /\ fetched < MaxFetches
    /\ \E ps \in Pages :
          LET new_products == NewProducts(ps, page_seen)
          IN  /\ products' = ps
              /\ fetched' = fetched + 1
              /\ IF new_products = <<>>
                 THEN /\ fpc' = "returned"
                      /\ UNCHANGED <<page, all_products, page_seen>>
                 ELSE /\ all_products' = all_products \o new_products
                      /\ page_seen' = page_seen \cup SeqIds(new_products)
                      /\ page' = page + 1
                      /\ fpc' = "fetching"
    /\ UNCHANGED <<rvars, readvars, nvars, mvars, wvars, avars>>

\* fetch_listings raises (raise_for_status, a page without the data script)
FetchRaises ==
    /\ fpc = "fetching"
    /\ fetched < MaxFetches
    /\ fpc' = "raised"
    /\ fetched' = fetched + 1
    /\ UNCHANGED <<page, products, all_products, page_seen, rvars, readvars, nvars, mvars, wvars, avars>>

NextFetch == BeginFetch \/ FetchPage \/ FetchRaises

\* a request answers or times out (timeout=30): the loop does not stall
SpecFetch == Init /\ [][NextFetch]_vars /\ WF_vars(FetchPage)

\* -------------------------------------------------- match_product_key
\* fuzz.partial_ratio(pattern, title): nothing in common, just below the
\* threshold, on it, a perfect match
Scores == {0, THRESHOLD - 1, THRESHOLD, 100}

\* PRODUCT_RULES seen from one title: for the keys in declaration order,
\* the scores of their patterns in list order
RuleScores ==
    UNION {[1..nk -> UNION {[1..np -> Scores] : np \in 0..MaxPatterns}] :
              nk \in 0..MaxKeys}

BetterOrEqual(score, best) == score >= best

\* line 27
Better(score, best) == score > best

ReachesAbove(best) == best > THRESHOLD

\* line 29
Reaches(best) == best >= THRESHOLD

\* lines 21-23, called with a title
MatchCall ==
    /\ mpc = "idle"
    /\ scores' \in RuleScores
    /\ mi' = 1
    /\ mj' = 1
    /\ best_key' = NoKey
    /\ best_score' = 0
    /\ matched' = NoKey
    /\ mpc' = "loop"
    /\ UNCHANGED <<rvars, readvars, nvars, fvars, wvars, avars>>

\* lines 25-28, one pattern of the key at mi
MatchPattern ==
    /\ mpc = "loop"
    /\ mi <= Len(scores)
    /\ mj <= Len(scores[mi])
    /\ IF Better(scores[mi][mj], best_score)
       THEN best_key' = mi /\ best_score' = scores[mi][mj]
       ELSE UNCHANGED <<best_key, best_score>>
    /\ mj' = mj + 1
    /\ UNCHANGED <<mpc, scores, mi, matched, rvars, readvars, nvars, fvars, wvars, avars>>

\* line 24, the patterns of the key at mi are exhausted
MatchNextKey ==
    /\ mpc = "loop"
    /\ mi <= Len(scores)
    /\ mj > Len(scores[mi])
    /\ mi' = mi + 1
    /\ mj' = 1
    /\ UNCHANGED <<mpc, scores, best_key, best_score, matched, rvars, readvars, nvars, fvars, wvars, avars>>

\* lines 29-31
MatchReturn ==
    /\ mpc = "loop"
    /\ mi > Len(scores)
    /\ matched' = IF Reaches(best_score) THEN best_key ELSE NoKey
    /\ mpc' = "done"
    /\ UNCHANGED <<scores, mi, mj, best_key, best_score, rvars, readvars, nvars, fvars, wvars, avars>>

NextMatch == MatchCall \/ MatchPattern \/ MatchNextKey \/ MatchReturn

SpecMatch == Init /\ [][NextMatch]_vars

\* ------------------------------------------------------------ winsorize
\* an extreme price among ordinary ones
Outlier == 100
\* samples: every short list of prices, and longer lists (10 elements are
\* needed for a lower index above 0) of cheap and extreme prices
Samples ==
    UNION {[1..len -> (1..MaxVal) \cup {Outlier}] : len \in 0..MaxShort}
       \cup UNION {[1..len -> {1, Outlier}] : len \in (MaxShort + 1)..MaxLong}

RECURSIVE Insert(_, _)
Insert(x, sorted) ==
    IF sorted = <<>> THEN <<x>>
    ELSE IF x <= Head(sorted) THEN <<x>> \o sorted
         ELSE <<Head(sorted)>> \o Insert(x, Tail(sorted))

RECURSIVE Sorted(_)
\* sorted(values)
Sorted(vs) == IF vs = <<>> THEN <<>> ELSE Insert(Head(vs), Sorted(Tail(vs)))

\* s[i] of Python for a list s: from 0, negative indices count from the end
PyIndex(s, i) == IF i < 0 THEN s[Len(s) + i + 1] ELSE s[i + 1]

\* int(n * 0.1), the default lower_pct
LowerIdx(len) == len \div 10

UpperIdxNoOffset(len) == (9 * len) \div 10

\* int(n * 0.9) - 1, the default upper_pct
UpperIdx(len) == ((9 * len) \div 10) - 1

WinsorizeTrims(vs) ==
    IF vs = <<>> THEN <<>>
    ELSE LET sorted_vals == Sorted(vs)
             lower == PyIndex(sorted_vals, LowerIdx(Len(vs)))
             upper == PyIndex(sorted_vals, UpperIdx(Len(vs)))
             Keep(v) == lower <= v /\ v <= upper
         IN  SelectSeq(vs, Keep)

\* lines 36-44
Winsorize(vs) ==
    IF vs = <<>> THEN <<>>
    ELSE LET sorted_vals == Sorted(vs)
             lower == PyIndex(sorted_vals, LowerIdx(Len(vs)))
             upper == PyIndex(sorted_vals, UpperIdx(Len(vs)))
         IN  [i \in 1..Len(vs) |-> Min2(Max2(vs[i], lower), upper)]

\* winsorize(values)
WinsorizeCall ==
    /\ wpc = "idle"
    /\ values' \in Samples
    /\ wins' = Winsorize(values')
    /\ wpc' = "done"
    /\ UNCHANGED <<rvars, readvars, nvars, fvars, mvars, avars>>

NextWinsorize == WinsorizeCall

SpecWinsorize == Init /\ [][NextWinsorize]_vars

\* -------------------------------------------------------------- analyze
\* the columns of CREATE TABLE in _init_db (scrape_marktplaats.py 45-53)
InitDbColumns ==
    {"id", "title", "price", "status", "last_seen", "final_price", "url"}

\* the columns the SELECT of analyze names
SelectColumns ==
    {"title", "price", "final_price", "start_date", "last_seen", "highest_bid"}

\* no listings table, the table of _init_db, a table with every column
Schemas == {{}, InitDbColumns, InitDbColumns \cup SelectColumns}

\* titles: NULL, one PRODUCT_RULES matches, one it does not
Titles == {"NULL", "delonghi magnifica s espresso", "random toaster"}
\* timestamps as stored text: NULL, an ISO string inside the 90 day window,
\* an ISO string before it, a string that is no ISO date (it sorts after
\* the cutoff, which starts with a digit)
Stamps == {"NULL", "recent", "old", "n/a"}

StoredRows ==
    [title : Titles, price : {NULL, 1}, final_price : {NULL, 1},
     start_date : Stamps \ {"old"}, last_seen : Stamps]

\* the tables analyze may be pointed at; a table without the start_date
\* column has no start dates
Stores(columns) ==
    IF columns = {} THEN {<<>>}
    ELSE UNION {[1..len -> {r \in StoredRows :
                              "start_date" \in columns \/ r.start_date = "NULL"}] :
                   len \in 0..MaxRows}

\* match_product_key(title or "")
TitleKey(title) ==
    IF title = "delonghi magnifica s espresso" THEN "delonghi_magnifica_s"
    ELSE "None"

\* WHERE last_seen >= cutoff, on text
InWindow(r) == r.last_seen \in {"recent", "n/a"}

\* datetime.fromisoformat raises ValueError
FromIsoRaises(stamp) == stamp = "n/a"

\* lines 75-77
Ask(r) == IF r.final_price # NULL THEN r.final_price ELSE r.price

\* the row is skipped by lines 72-77
Skipped(r) == TitleKey(r.title) = "None" \/ Ask(r) = NULL

\* analyze(db_path)
AnalyzeCall ==
    /\ apc = "idle"
    /\ acolumns' \in Schemas
    /\ arows' \in Stores(acolumns')
    /\ ai' = 1
    /\ akeys' = {}
    /\ apc' = "select"
    /\ UNCHANGED <<rvars, readvars, nvars, fvars, mvars, wvars>>

\* lines 62-68: the SELECT raises OperationalError, analyze returns {}
AnalyzeSelectFails ==
    /\ apc = "select"
    /\ ~(SelectColumns \subseteq acolumns)
    /\ apc' = "returned"
    /\ UNCHANGED <<acolumns, arows, ai, akeys, rvars, readvars, nvars, fvars, mvars, wvars>>

\* lines 63-66 and 71: the rows of the window
AnalyzeSelect ==
    /\ apc = "select"
    /\ SelectColumns \subseteq acolumns
    /\ arows' = SelectSeq(arows, InWindow)
    /\ apc' = "rows"
    /\ UNCHANGED <<acolumns, ai, akeys, rvars, readvars, nvars, fvars, mvars, wvars>>

\* lines 71-89, one row of the cursor
AnalyzeRow ==
    /\ apc = "rows"
    /\ ai <= Len(arows)
    /\ LET r == arows[ai]
       IN  IF Skipped(r)
           THEN apc' = "rows" /\ akeys' = akeys
           ELSE IF FromIsoRaises(r.start_date) \/ FromIsoRaises(r.last_seen)
                THEN apc' = "raised" /\ akeys' = akeys
                ELSE apc' = "rows" /\ akeys' = akeys \cup {TitleKey(r.title)}
    /\ ai' = ai + 1
    /\ UNCHANGED <<acolumns, arows, rvars, readvars, nvars, fvars, mvars, wvars>>

\* lines 91-104
AnalyzeReturn ==
    /\ apc = "rows"
    /\ ai > Len(arows)
    /\ apc' = "returned"
    /\ UNCHANGED <<acolumns, arows, ai, akeys, rvars, readvars, nvars, fvars, mvars, wvars>>

NextAnalyze ==
    \/ AnalyzeCall
    \/ AnalyzeSelectFails
    \/ AnalyzeSelect
    \/ AnalyzeRow
    \/ AnalyzeReturn

SpecAnalyze == Init /\ [][NextAnalyze]_vars

\* ================================================================ claims
Unset(v) == v = NULL
IsSet(v) == v # NULL

\* C1: every persisted record with status sold has price unset and
\* final_price set.
C1_SoldHasFinalPrice ==
    \A r \in db : r.status = "sold" => Unset(r.price) /\ IsSet(r.final_price)

\* C2: the mark-missing step turns every record that was available and is
\* not in seen_ids into sold with final_price = its price from before the
\* step and price unset, and leaves every other record as it was.
C2_MarkMissingStep ==
    [][(pc = "upsert" /\ pc' = "commit") =>
          /\ IdsOf(tx') = IdsOf(tx)
          /\ Cardinality(tx') = Cardinality(tx)
          /\ \A r \in tx : \A r2 \in tx' :
                r2.id = r.id =>
                   IF r.status = "available" /\ r.id \notin seen_ids
                   THEN /\ r2.status = "sold"
                        /\ r2.final_price = r.price
                        /\ Unset(r2.price)
                        /\ r2.last_seen = r.last_seen
                   ELSE r2 = r]_vars

\* an available record asking MaxPrice was absent and is now sold at MaxPrice
C2_Witness ==
    /\ pc = "commit"
    /\ \E r \in tx : \E r0 \in db :
          /\ r0.id = r.id
          /\ r0.status = "available" /\ r0.price = MaxPrice
          /\ r.id \notin seen_ids
          /\ r.status = "sold" /\ r.final_price = MaxPrice /\ Unset(r.price)

\* C3: no status is terminal.  When a run commits, every record of the store
\* whose id is absent from the run's batch is sold afterwards, and every
\* record that was sold and is in the batch is available (active) afterwards.
C3_NoTerminalStatus ==
    [][(pc = "commit" /\ pc' = "done") =>
          \A r \in db :
             /\ r.id \in IdsOf(db')
             /\ \A r2 \in db' :
                   r2.id = r.id =>
                      /\ (r.id \notin seen_ids => r2.status = "sold")
                      /\ (r.status = "sold" /\ r.id \in seen_ids
                             => r2.status = "available")]_vars

\* B was sold with a price and is back in the batch: available again, still
\* carrying the final_price of the sale, next to A which stayed available
C3_Witness ==
    /\ pc = "done"
    /\ seen_ids = {"A", "B"}
    /\ \E r \in db : r.id = "B" /\ r.status = "available" /\ IsSet(r.final_price)
    /\ \E r \in db : r.id = "A" /\ r.status = "available" /\ Unset(r.final_price)

\* C4: the run of a query never turns into sold a record whose id lies
\* outside that query's scope.
C4_ScopedPerQuery ==
    [][\A r \in db :
          (r.status = "available" /\ r.id \notin Scope(query)) =>
             \E r2 \in db' : r2.id = r.id /\ r2.status = "available"]_vars

C6_MarkMissingIdempotent ==
    \A seen \in SUBSET Ids :
       LET once == MarkMissingAsSold(tx, seen)
       IN  /\ Missing(once, seen) = {}
           /\ MarkMissingAsSold(once, seen) = once

\* the step has just sold a record that had a price
C6_Witness ==
    /\ pc = "commit"
    /\ \E r \in tx :
          /\ r.status = "sold" /\ IsSet(r.final_price)
          /\ r.id \notin seen_ids
          /\ r \notin db
    /\ Missing(tx, seen_ids) = {}

C8_LastSeenMonotone ==
    [][/\ \A r \in db : \A r2 \in db' :
             r2.id = r.id => r2.last_seen >= r.last_seen
       /\ (pc = "upsert" /\ pc' = "commit") =>
             \A r \in tx : \A r2 \in tx' :
                r2.id = r.id => r2.last_seen = r.last_seen]_vars

\* a record marked sold in a run later than the one that last saw it
C8_Witness ==
    /\ pc = "done"
    /\ \E r \in db : r.status = "sold" /\ r.last_seen < now
    /\ \E r \in db : r.status = "available" /\ r.last_seen = now

UniqueIds(rows) == \A r1 \in rows : \A r2 \in rows : r1.id = r2.id => r1 = r2

\* C9: ids are unique in the table, the set of stored ids never shrinks, and
\* an id enters the table only when the running batch contains it.
C9_NeverDeletedUnique ==
    /\ [](UniqueIds(db) /\ UniqueIds(tx))
    /\ [][/\ IdsOf(db) \subseteq IdsOf(db')
          /\ IdsOf(tx') \ IdsOf(tx) \subseteq seen_ids'
          /\ IdsOf(db') \ IdsOf(db) \subseteq seen_ids']_vars

\* the same id twice in one batch, for a record the store already held
C9_Witness ==
    /\ pc = "upsert"
    /\ k = 2
    /\ Cardinality(seen_ids) = 1
    /\ seen_ids \subseteq IdsOf(db)
    /\ Cardinality(tx) = Cardinality(db)

\* C10: a run that fails leaves the persisted table as it was before the
\* run: no step but the successful commit changes db, so neither the upserts
\* nor the sold transitions of a failed run are visible.
C10_FailedRunChangesNothing ==
    [][pc' # "done" => db' = db]_vars

\* a run over a non-empty store that failed on or after its last product
C10_Witness ==
    /\ pc = "failed"
    /\ k = MaxBatch
    /\ db # {}

\* C11: whatever a reader has observed since the run began is the whole
\* table from before the run or, once the run has committed, the whole table
\* after it; never rows of the open transaction.
C11_ReadIsolation ==
    view.read =>
       \/ view.rows = before
       \/ pc = "done" /\ view.rows = db

\* a read taken while the run holds uncommitted upserts and sold marks
C11_Witness ==
    /\ pc = "commit"
    /\ k = MaxBatch
    /\ tx # db
    /\ \E r \in tx : r.status = "sold" /\ r \notin db
    /\ view.read
    /\ view.rows = db

FirstIndex(ps, id) == CHOOSE i \in DOMAIN ps : ps[i].id = id /\ \A j \in 1..(i-1) : ps[j].id # id

\* C12: the batch fetch_all_listings returns holds every id at most once,
\* and the row the following upsert stores for an id carries the price of
\* the id's first occurrence.
C12_BatchHasNoDuplicates ==
    fpc = "returned" =>
       /\ \A i \in DOMAIN all_products : \A j \in DOMAIN all_products :
             all_products[i].id = all_products[j].id => i = j
       /\ \A r \in UpsertBatch({}, all_products, 1) :
             r.price = all_products[FirstIndex(all_products, r.id)].price

\* C13: the loop returns exactly on the first page without an id that is
\* new to this call, that page adds nothing, at most |Ids| + 1 pages are
\* fetched, and a call that has started fetching ends.
C13_PaginationTerminates ==
    /\ [](fetched <= Cardinality(Ids) + 1 /\ page <= Cardinality(Ids) + 1)
    /\ [][(fpc = "fetching" /\ fpc' # "raised") =>
             /\ (fpc' = "returned") = (SeqIds(products') \subseteq page_seen)
             /\ fpc' = "returned" =>
                   all_products' = all_products /\ page_seen' = page_seen
             /\ fpc' = "fetching" => page_seen' = page_seen \cup SeqIds(products')]_vars
    /\ (fpc = "fetching") ~> (fpc \in {"returned", "raised"})

\* the loop ended on its third page, a repeat of ids already seen, after two
\* pages that each brought one new id
C13_Witness ==
    /\ fpc = "returned"
    /\ fetched = Cardinality(Ids) + 1
    /\ page_seen = Ids
    /\ products # <<>>

AllScores == UNION {{scores[i][j] : j \in DOMAIN scores[i]} : i \in DOMAIN scores}
Highest == CHOOSE x \in AllScores : \A y \in AllScores : y <= x
KeysWith(x) == {i \in DOMAIN scores : \E j \in DOMAIN scores[i] : scores[i][j] = x}

\* C14: the matcher returns the first-declared key among those owning the
\* highest score when that score is at least the threshold, and nothing when
\* no score reaches the threshold.
C14_MatcherSelection ==
    mpc = "done" =>
       IF AllScores # {} /\ Highest >= THRESHOLD
       THEN /\ matched \in KeysWith(Highest)
            /\ \A i \in KeysWith(Highest) : matched <= i
       ELSE matched = NoKey

\* both keys own the perfect score and the first one is returned, although
\* the second key reaches it first within its own pattern list
C14_Witness ==
    /\ mpc = "done"
    /\ Len(scores) = 2
    /\ scores[1] = <<THRESHOLD, 100>>
    /\ scores[2] = <<100>>
    /\ matched = 1

\* the element at position i0 (from 0) of the sample sorted ascending
CountBelow(vs, x) == Cardinality({i \in DOMAIN vs : vs[i] < x})
CountUpTo(vs, x) == Cardinality({i \in DOMAIN vs : vs[i] <= x})
OrderStat(vs, i0) ==
    CHOOSE x \in {vs[i] : i \in DOMAIN vs} :
       CountBelow(vs, x) <= i0 /\ i0 < CountUpTo(vs, x)
Clamp(v, lo, hi) == IF v < lo THEN lo ELSE IF v > hi THEN hi ELSE v
CeilNineTenths(len) == (9 * len + 9) \div 10

\* C15 as stated: every value is clamped into
\* [s[floor(n*0.1)], s[ceil(n*0.9)-1]] of the sorted sample s.
C15_ClampCeilUpper ==
    (wpc = "done" /\ values # <<>>) =>
       LET len == Len(values)
           lo == OrderStat(values, len \div 10)
           hi == OrderStat(values, CeilNineTenths(len) - 1)
       IN  \A i \in DOMAIN values : wins[i] = Clamp(values[i], lo, hi)

\* C15 as amended: every value is clamped into
\* [s[floor(n*0.1)], s[floor(n*0.9)-1]], where the index -1 that n = 1 gives
\* is the last element; both indices are positions of s and the lower bound
\* does not exceed the upper one.
C15_ClampFloorUpper ==
    (wpc = "done" /\ values # <<>>) =>
       LET len == Len(values)
           li == len \div 10
           ui == IF len = 1 THEN 0 ELSE ((9 * len) \div 10) - 1
           lo == OrderStat(values, li)
           hi == OrderStat(values, ui)
       IN  /\ 0 <= li /\ li <= ui /\ ui < len
           /\ lo <= hi
           /\ Len(wins) = len
           /\ \A i \in DOMAIN values : wins[i] = Clamp(values[i], lo, hi)

\* ten values, nine of them extreme: the lower index is 1 and the cheap
\* value is raised to the bound
C15_Witness ==
    /\ wpc = "done"
    /\ Len(values) = 10
    /\ \E i \in DOMAIN values : values[i] = 1 /\ wins[i] = Outlier

\* C16: the result has the length of the sample and holds, position by
\* position, the value itself or one of the two bounds; for five values the
\* bounds are the smallest and the 4th smallest, so [1,2,3,4,100] gives
\* [1,2,3,4,4].
C16_SamplePreserved ==
    wpc = "done" =>
       /\ Len(wins) = Len(values)
       /\ \A i \in DOMAIN values :
             \/ wins[i] = values[i]
             \/ wins[i] = PyIndex(Sorted(values), LowerIdx(Len(values)))
             \/ wins[i] = PyIndex(Sorted(values), UpperIdx(Len(values)))
       /\ Len(values) = 5 =>
             \A i \in DOMAIN values :
                wins[i] = Clamp(values[i], OrderStat(values, 0), OrderStat(values, 3))
       /\ values = <<1, 2, 3, 4, 100>> => wins = <<1, 2, 3, 4, 4>>

C16_Witness ==
    /\ wpc = "done"
    /\ values = <<1, 2, 3, 4, 100>>
    /\ wins = <<1, 2, 3, 4, 4>>

\* C17: no call of analyze ends with an exception.
C17_AnalyzeNeverRaises == apc # "raised"

\* C18: when the table is the one _init_db creates and holds a row of the
\* window with a matching title and a price or final_price, the mapping
\* analyze returns has an entry for that row's product key.
C18_ReconcilerRowsAreValued ==
    (apc = "returned" /\ acolumns = InitDbColumns) =>
       \A i \in DOMAIN arows :
          LET r == arows[i]
          IN  (r.last_seen = "recent" /\ TitleKey(r.title) # "None" /\ Ask(r) # NULL)
                 => TitleKey(r.title) \in akeys

\* C19: an upsert of an id the table holds leaves the row's final_price as
\* it was and makes the row available with last_seen = now; in the persisted
\* table final_price changes only on a row that goes from available to sold,
\* which takes the price the row had.
C19_UpsertFrame ==
    [][/\ (pc = "upsert" /\ pc' = "upsert") =>
             \A r \in tx : \E r2 \in tx' :
                /\ r2.id = r.id
                /\ r2.final_price = r.final_price
                /\ r2 # r => r2.status = "available" /\ r2.last_seen = now
       /\ \A r \in db : \A r2 \in db' :
             (r2.id = r.id /\ r2.final_price # r.final_price) =>
                /\ r.status = "available"
                /\ r2.status = "sold"
                /\ r2.final_price = r.price]_vars

\* a relisted record: available at a price, still carrying the different
\* final_price of its earlier sale, which is what analyze takes as its ask
C19_Witness ==
    /\ pc = "done"
    /\ \E r \in db :
          /\ r.status = "available"
          /\ IsSet(r.price) /\ IsSet(r.final_price)
          /\ r.final_price # r.price
          /\ Ask(r) = r.final_price
          /\ r.last_seen = now

\* C20: when every run completes, notify_new_listing is called exactly once
\* for every id, in the run whose save_listings created its row; a row only
\* ever moves from new to active, keeps its data, becomes active only after
\* its notification in that run, and no row is new when a run has completed.
C20_NotifiedExactlyOnce ==
    /\ [](\A id \in Ids : alerts[id] <= 1)
    /\ [](npc = "done" =>
             /\ \A r \in ldb : r.status = "active"
             /\ \A id \in Ids : alerts[id] = (IF id \in IdsOf(ldb) THEN 1 ELSE 0))
    /\ [][/\ \A id \in Ids : alerts'[id] # alerts[id] => id \in created
          /\ \A r \in ldb : \E r2 \in ldb' :
                /\ r2.id = r.id /\ r2.data = r.data
                /\ \/ r2.status = r.status
                   \/ r.status = "new" /\ r2.status = "active" /\ r.id \in notified]_vars

\* a second completed run saw an id again and a new one: one alert each
C20_Witness ==
    /\ npc = "done"
    /\ n = 2
    /\ Cardinality(created) = 1
    /\ IdsOf(ldb) = Ids
    /\ \A id \in Ids : alerts[id] = 1

====
